---------------------------- MODULE Spec2Model ----------------------------
(***************************************************************************)
(* lock-hog: the hogging handshake of hog_lock (thread / process),         *)
(* the older thread-only hog_lock and async_hog_lock (task).               *)
(*                                                                         *)
(* One orchestrator invocation is modelled together with the execution     *)
(* context it spawns and the caller-supplied capability.  Time is counted  *)
(* in ticks of half a time unit, so that the timeouts 0.5, 1.0, 1.5, ...   *)
(* and the integers 1, 2, ... are all whole numbers of ticks.              *)
(***************************************************************************)
EXTENDS Integers, Sequences, FiniteSets, TLC

\* ------------------------------------------------------------------ bounds
\* integer timeout arguments 0 .. MaxIntTimeout
MaxIntTimeout == 2
\* float timeout arguments 0.0, 0.5, ... MaxFloatHalves / 2
MaxFloatHalves == 3
\* release() takes 0 .. MaxReleaseTime ticks
MaxReleaseTime == 3

\* ------------------------------------------------------ values of `timeout`
\* A Python number is kept with its type, because f"{timeout}" prints an int
\* and a float differently while == compares them by value; h is the value in
\* halves.  None is the omitted argument.
None == [ty |-> "NoneType", h |-> 0]

\* no error
NoError == "NoError"

PyInt(n) == [ty |-> "int", h |-> 2 * n]

PyFloat(halves) == [ty |-> "float", h |-> halves]

TimeoutArgs ==
    {None} \cup {PyInt(n) : n \in 0..MaxIntTimeout}
           \cup {PyFloat(k) : k \in 0..MaxFloatHalves}

\* bool(x): None, 0 and 0.0 are falsy
Truthy(x) == x.ty # "NoneType" /\ x.h # 0

\* x == 1.0 in Python: numeric comparison, whatever the type
EqualsOnePointZero(x) == x.h = 2

DEFAULT_JOIN_TIMEOUT == PyFloat(2)

DEFAULT_THREAD_JOIN_TIMEOUT == PyFloat(2)

DEFAULT_TIMEOUT == PyFloat(2)

\* ------------------------------------------------------------- formatting
RECURSIVE DecimalDigits(_)
DecimalDigits(n) ==
    LET d == n % 10
        s == CASE d = 0 -> "0" [] d = 1 -> "1" [] d = 2 -> "2" [] d = 3 -> "3"
               [] d = 4 -> "4" [] d = 5 -> "5" [] d = 6 -> "6" [] d = 7 -> "7"
               [] d = 8 -> "8" [] OTHER -> "9"
    IN  IF n < 10 THEN s ELSE DecimalDigits(n \div 10) \o s

\* f"{x}": an int prints its digits, a float always prints a fractional part
PyFormat(x) ==
    IF x.ty = "int"
    THEN DecimalDigits(x.h \div 2)
    ELSE DecimalDigits(x.h \div 2) \o "." \o (IF x.h % 2 = 0 THEN "0" ELSE "5")


\* mutant: only the omitted argument falls back to the default
TimeoutOrDefault_OnlyNone(t, default) == IF t.ty # "NoneType" THEN t ELSE default

\* timeout or DEFAULT
TimeoutOrDefault(t, default) == IF Truthy(t) THEN t ELSE default

\* mutant: the singular is chosen from the printed text of the timeout
AliveTimeDescription_ByText(t) ==
    IF PyFormat(t) = "1" THEN "1 second" ELSE PyFormat(t) \o " seconds"

\* "1 second" if timeout == 1.0 else f"{timeout} seconds"
AliveTimeDescription(t) ==
    IF EqualsOnePointZero(t) THEN "1 second" ELSE PyFormat(t) \o " seconds"

\* mutant: the message always says thread
Lower_AlwaysThread(v) == "thread"

\* hog_from.value.lower()
Lower(v) == IF v = "PROCESS" THEN "process" ELSE "thread"

\* The texts of HoggerStillAlive; the back quotes around the function name
\* are left out.
ParallelMessage(from, desc) ==
    "The " \o Lower(from) \o " that hogged the lock was still alive after "
    \o desc \o ". If this doesn't indicate a bug, consider "
    \o "passing a longer timeout value to hog_lock."

LegacyMessage(desc) ==
    "The thread that hogged the lock was still alive after "
    \o desc \o ". If this doesn't indicate a bug, consider "
    \o "passing a longer timeout value to hog_lock."

AsyncMessage(desc) ==
    "The task that hogged the lock was still executing after "
    \o desc \o ". If this doesn't indicate a bug, consider "
    \o "passing a longer timeout value to async_hog_lock."

\* ------------------------------------------------------------------ state
VARIABLES
    entry,                \* which entry point is called
    hog_from,             \* HogFrom selector (parallel hog_lock only)
    timeout_arg,          \* the timeout argument
    loop_running,         \* is an event loop running in the calling context
    capability,           \* behaviour of the caller-supplied lock hogger
    block_raises,         \* does the block of the caller end by raising
    pc,                   \* position of the orchestrator
    hpc,                  \* position of the execution context (the wrapper)
    lock_acquired_event,  \* "nil" (not created), "clear", "set"
    release_lock_event,   \* "nil" (not created), "clear", "set"
    resource,             \* the resource behind the capability
    timeout,              \* the local timeout after timeout or DEFAULT
    waited,               \* ticks spent in the bounded wait
    release_elapsed,      \* ticks spent inside release()
    cancel_requested,     \* Task.cancel() was called on the hogging task
    raised,               \* the error that left the orchestrator, or NoError
    message,              \* the text of that error
    hog_error,            \* the error that ended the execution context
    log                   \* history of the events, in order

vars == << entry, hog_from, timeout_arg, loop_running, capability, block_raises,
           pc, hpc, lock_acquired_event, release_lock_event, resource, timeout,
           waited, release_elapsed, cancel_requested, raised, message,
           hog_error, log >>

inputs == << entry, hog_from, timeout_arg, loop_running, capability, block_raises >>

\* The three entry points and the selector values each one accepts.
Calls ==
    {[entry |-> "hog_lock", hog_from |-> f] : f \in {"THREAD", "PROCESS"}}
    \cup {[entry |-> "legacy_hog_lock", hog_from |-> "THREAD"],
          [entry |-> "async_hog_lock", hog_from |-> "TASK"]}

\* acquire_lock() returns, raises or never returns; release_lock() returns or
\* raises after release_time ticks.
Capabilities ==
    [acquire : {"returns", "raises", "hangs"},
     release : {"returns", "raises"},
     release_time : 0..MaxReleaseTime]

Kind ==
    IF entry = "async_hog_lock" THEN "task"
    ELSE IF hog_from = "PROCESS" THEN "process" ELSE "thread"

Has(e) == \E i \in DOMAIN log : log[i] = e

Before(a, b) ==
    \E i \in DOMAIN log : /\ log[i] = a
                          /\ \A j \in DOMAIN log : log[j] = b => i < j

\* Thread.is_alive() / Process.is_alive() / not Task.done()
HoggerAlive == hpc \notin {"none", "new", "done", "failed", "cancelled"}

OrchWaiting == pc \in {"join", "await"}

Init ==
    /\ \E c \in Calls : entry = c.entry /\ hog_from = c.hog_from
    /\ timeout_arg \in TimeoutArgs
    /\ loop_running \in (IF entry = "async_hog_lock" THEN BOOLEAN ELSE {FALSE})
    /\ capability \in Capabilities
    /\ block_raises \in BOOLEAN
    /\ pc = "init"
    /\ hpc = "none"
    /\ lock_acquired_event = "nil"
    /\ release_lock_event = "nil"
    /\ resource = "free"
    /\ timeout = timeout_arg
    /\ waited = 0
    /\ release_elapsed = 0
    /\ cancel_requested = FALSE
    /\ raised = NoError
    /\ message = ""
    /\ hog_error = NoError
    /\ log = << >>

\* -------------------------------------------------------- the orchestrator
Default ==
    CASE entry = "hog_lock" -> DEFAULT_JOIN_TIMEOUT
      [] entry = "legacy_hog_lock" -> DEFAULT_THREAD_JOIN_TIMEOUT
      [] OTHER -> DEFAULT_TIMEOUT

MessageWith(desc) ==
    CASE entry = "hog_lock" -> ParallelMessage(hog_from, desc)
      [] entry = "legacy_hog_lock" -> LegacyMessage(desc)
      [] OTHER -> AsyncMessage(desc)

StillAliveMessage(t) == MessageWith(AliveTimeDescription(t))

\* _hog_lock / _hog_lock_from_thread: the two events and the executor object
OrchCreate ==
    /\ pc = "init"
    /\ entry # "async_hog_lock"
    /\ lock_acquired_event' = "clear"
    /\ release_lock_event' = "clear"
    /\ hpc' = "new"
    /\ pc' = "start"
    /\ log' = Append(log, "create")
    /\ UNCHANGED << inputs, resource, timeout, waited, release_elapsed,
                    cancel_requested, raised, message, hog_error >>

\* mutant: the orchestrator sets the acquired event itself when it starts
\* the executor
OrchStart_SetsAcquired ==
    /\ pc = "start"
    /\ hpc' = "ready"
    /\ lock_acquired_event' = "set"
    /\ pc' = "wait_acquired"
    /\ log' = Append(log, "spawn")
    /\ UNCHANGED << inputs, release_lock_event, resource, timeout, waited,
                    release_elapsed, cancel_requested, raised, message,
                    hog_error >>

\* executor.start()
OrchStart ==
    /\ pc = "start"
    /\ hpc' = "ready"
    /\ pc' = "wait_acquired"
    /\ log' = Append(log, "spawn")
    /\ UNCHANGED << inputs, lock_acquired_event, release_lock_event, resource,
                    timeout, waited, release_elapsed, cancel_requested, raised,
                    message, hog_error >>

\* mutant: the task is created without asking for the running loop
OrchCreateTask_NoLoopCheck ==
    /\ pc = "init"
    /\ entry = "async_hog_lock"
    /\ lock_acquired_event' = "clear"
    /\ release_lock_event' = "clear"
    /\ hpc' = "ready"
    /\ pc' = "wait_acquired"
    /\ log' = log \o << "create", "spawn" >>
    /\ UNCHANGED << inputs, resource, timeout, waited, release_elapsed,
                    cancel_requested, raised, message, hog_error >>

\* async _hog_lock: the two events, get_running_loop(), create_task()
OrchCreateTask ==
    /\ pc = "init"
    /\ entry = "async_hog_lock"
    /\ lock_acquired_event' = "clear"
    /\ release_lock_event' = "clear"
    /\ IF loop_running
       THEN /\ hpc' = "ready"
            /\ pc' = "wait_acquired"
            /\ log' = log \o << "create", "spawn" >>
            /\ UNCHANGED << raised, message >>
       ELSE /\ raised' = "NoRunningEventLoop"
            /\ message' = "Please ensure that async_hog_lock is called from within an async task, so that it has access to a running event loop."
            /\ pc' = "exited"
            /\ log' = Append(log, "setup_error")
            /\ UNCHANGED hpc
    /\ UNCHANGED << inputs, resource, timeout, waited, release_elapsed,
                    cancel_requested, hog_error >>

\* mutant: the orchestrator yields without waiting for the acquired event
OrchWaitAcquired_NoWait ==
    /\ pc = "wait_acquired"
    /\ pc' = "body"
    /\ log' = Append(log, "body_enter")
    /\ UNCHANGED << inputs, hpc, lock_acquired_event, release_lock_event,
                    resource, timeout, waited, release_elapsed,
                    cancel_requested, raised, message, hog_error >>

\* mutant: the orchestrator clears the acquired event once it has seen it
OrchWaitAcquired_AutoReset ==
    /\ pc = "wait_acquired"
    /\ lock_acquired_event = "set"
    /\ lock_acquired_event' = "clear"
    /\ pc' = "body"
    /\ log' = Append(log, "body_enter")
    /\ UNCHANGED << inputs, hpc, release_lock_event, resource, timeout, waited,
                    release_elapsed, cancel_requested, raised, message,
                    hog_error >>

\* mutant: the entry wait also returns when the execution context has ended
OrchWaitAcquired_OrEnded ==
    /\ pc = "wait_acquired"
    /\ lock_acquired_event = "set" \/ hpc = "failed"
    /\ pc' = "body"
    /\ log' = Append(log, "body_enter")
    /\ UNCHANGED << inputs, hpc, lock_acquired_event, release_lock_event,
                    resource, timeout, waited, release_elapsed,
                    cancel_requested, raised, message, hog_error >>

\* lock_acquired_event.wait(), unbounded; then the generator yields
OrchWaitAcquired ==
    /\ pc = "wait_acquired"
    /\ lock_acquired_event = "set"
    /\ pc' = "body"
    /\ log' = Append(log, "body_enter")
    /\ UNCHANGED << inputs, hpc, lock_acquired_event, release_lock_event,
                    resource, timeout, waited, release_elapsed,
                    cancel_requested, raised, message, hog_error >>

\* The block of the caller ends.  The generator is suspended at a bare yield:
\* an exception of the block is thrown in there, nothing catches it, and it
\* leaves the generator without running the statements after the yield.
OrchYield ==
    /\ pc = "body"
    /\ IF block_raises
       THEN /\ raised' = "BlockError"
            /\ pc' = "exited"
            /\ log' = Append(log, "body_raise")
       ELSE /\ pc' = "set_release"
            /\ log' = Append(log, "body_return")
            /\ UNCHANGED raised
    /\ UNCHANGED << inputs, hpc, lock_acquired_event, release_lock_event,
                    resource, timeout, waited, release_elapsed,
                    cancel_requested, message, hog_error >>

\* release_lock_event.set(); timeout = timeout or DEFAULT
OrchSetRelease ==
    /\ pc = "set_release"
    /\ release_lock_event' = "set"
    /\ timeout' = TimeoutOrDefault(timeout_arg, Default)
    /\ waited' = 0
    /\ pc' = IF entry = "async_hog_lock" THEN "await" ELSE "join"
    /\ log' = Append(log, "set_release")
    /\ UNCHANGED << inputs, hpc, lock_acquired_event, resource, release_elapsed,
                    cancel_requested, raised, message, hog_error >>

\* mutant: the join does not wait
OrchJoin_NoWait ==
    /\ pc = "join"
    /\ log' = Append(log, "joined")
    /\ pc' = "is_alive"
    /\ UNCHANGED << inputs, hpc, lock_acquired_event, release_lock_event,
                    resource, timeout, waited, release_elapsed,
                    cancel_requested, raised, message, hog_error >>

\* executor.join(timeout=timeout): returns when the executor has ended, or
\* when timeout has passed with the executor still running
OrchJoin ==
    /\ pc = "join"
    /\ \/ ~HoggerAlive /\ log' = Append(log, "joined")
       \/ HoggerAlive /\ waited >= timeout.h /\ log' = Append(log, "wait_expired")
    /\ pc' = "is_alive"
    /\ UNCHANGED << inputs, hpc, lock_acquired_event, release_lock_event,
                    resource, timeout, waited, release_elapsed,
                    cancel_requested, raised, message, hog_error >>

\* mutant: the error is raised because the join timed out, without asking
\* the executor whether it is still alive
OrchIsAlive_RaisesOnExpiry ==
    /\ pc = "is_alive"
    /\ IF Has("wait_expired")
       THEN /\ raised' = "HoggerStillAlive"
            /\ message' = StillAliveMessage(timeout)
            /\ log' = log \o << "is_alive", "liveness_violation" >>
       ELSE /\ log' = log \o << "is_alive", "exit_ok" >>
            /\ UNCHANGED << raised, message >>
    /\ pc' = "exited"
    /\ UNCHANGED << inputs, hpc, lock_acquired_event, release_lock_event,
                    resource, timeout, waited, release_elapsed,
                    cancel_requested, hog_error >>

\* mutant: the liveness check is left out
OrchIsAlive_NoCheck ==
    /\ pc = "is_alive"
    /\ log' = log \o << "is_alive", "exit_ok" >>
    /\ pc' = "exited"
    /\ UNCHANGED << inputs, hpc, lock_acquired_event, release_lock_event,
                    resource, timeout, waited, release_elapsed,
                    cancel_requested, raised, message, hog_error >>

\* if executor.is_alive(): raise HoggerStillAlive(...)
OrchIsAlive ==
    /\ pc = "is_alive"
    /\ IF HoggerAlive
       THEN /\ raised' = "HoggerStillAlive"
            /\ message' = StillAliveMessage(timeout)
            /\ log' = log \o << "is_alive", "liveness_violation" >>
       ELSE /\ log' = log \o << "is_alive", "exit_ok" >>
            /\ UNCHANGED << raised, message >>
    /\ pc' = "exited"
    /\ UNCHANGED << inputs, hpc, lock_acquired_event, release_lock_event,
                    resource, timeout, waited, release_elapsed,
                    cancel_requested, hog_error >>

\* mutant: the exception that ended the task is swallowed
OrchAwaitDone_Swallow ==
    /\ pc = "await"
    /\ ~HoggerAlive
    /\ log' = Append(log, "exit_ok")
    /\ pc' = "exited"
    /\ UNCHANGED << inputs, hpc, lock_acquired_event, release_lock_event,
                    resource, timeout, waited, release_elapsed,
                    cancel_requested, raised, message, hog_error >>

\* async with asyncio.timeout(timeout): await hogging_task -- the task ended
\* first: awaiting it returns, or re-raises the exception that ended it
OrchAwaitDone ==
    /\ pc = "await"
    /\ ~HoggerAlive
    /\ raised' = hog_error
    /\ log' = Append(log, IF hog_error = NoError THEN "exit_ok" ELSE "error_surfaced")
    /\ pc' = "exited"
    /\ UNCHANGED << inputs, hpc, lock_acquired_event, release_lock_event,
                    resource, timeout, waited, release_elapsed,
                    cancel_requested, message, hog_error >>

\* asyncio.timeout expires while the orchestrator awaits the task directly:
\* the timeout cancels the awaiting task, and Task.cancel() of a task that
\* awaits another task passes the cancellation on to the awaited task.  The
\* hogging task has run since the release event was set (its wake-up was
\* queued before the timer), so it is suspended at an await inside
\* release_lock().
OrchAwaitTimeout ==
    /\ pc = "await"
    /\ hpc = "releasing"
    /\ capability.release_time > 0
    /\ waited >= timeout.h
    /\ cancel_requested' = TRUE
    /\ pc' = "cancelling"
    /\ log' = log \o << "wait_expired", "cancel" >>
    /\ UNCHANGED << inputs, hpc, lock_acquired_event, release_lock_event,
                    resource, timeout, waited, release_elapsed, raised,
                    message, hog_error >>

\* the cancelled task has ended: CancelledError reaches the orchestrator,
\* asyncio.timeout turns it into TimeoutError, the except clause raises
OrchTimeoutError ==
    /\ pc = "cancelling"
    /\ hpc = "cancelled"
    /\ raised' = "HoggerStillAlive"
    /\ message' = StillAliveMessage(timeout)
    /\ pc' = "exited"
    /\ log' = Append(log, "liveness_violation")
    /\ UNCHANGED << inputs, hpc, lock_acquired_event, release_lock_event,
                    resource, timeout, waited, release_elapsed,
                    cancel_requested, hog_error >>

\* ------------------------------------------------- the handshake wrapper
\* with context_manager_that_acquires_lock: __enter__ calls acquire_lock()
HogEnter ==
    /\ hpc = "ready"
    /\ hpc' = "acquiring"
    /\ log' = Append(log, "acquire_call")
    /\ UNCHANGED << inputs, pc, lock_acquired_event, release_lock_event,
                    resource, timeout, waited, release_elapsed,
                    cancel_requested, raised, message, hog_error >>

\* acquire_lock() returns with the resource taken
HogAcquireReturn ==
    /\ hpc = "acquiring"
    /\ capability.acquire = "returns"
    /\ resource' = "held"
    /\ hpc' = "acquired"
    /\ log' = Append(log, "acquire_return")
    /\ UNCHANGED << inputs, pc, lock_acquired_event, release_lock_event,
                    timeout, waited, release_elapsed, cancel_requested, raised,
                    message, hog_error >>

\* mutant: release_lock() is called although acquire_lock() raised, as a
\* try/finally around the acquisition would do
HogAcquireRaise_ThenRelease ==
    /\ hpc = "acquiring"
    /\ capability.acquire = "raises"
    /\ hpc' = "releasing"
    /\ release_elapsed' = 0
    /\ hog_error' = "AcquireError"
    /\ log' = log \o << "acquire_raise", "release_call" >>
    /\ UNCHANGED << inputs, pc, lock_acquired_event, release_lock_event,
                    resource, timeout, waited, cancel_requested, raised,
                    message >>

\* acquire_lock() raises: nothing in the wrapper catches it, the execution
\* context ends with that error
HogAcquireRaise ==
    /\ hpc = "acquiring"
    /\ capability.acquire = "raises"
    /\ hpc' = "failed"
    /\ hog_error' = "AcquireError"
    /\ log' = log \o << "acquire_raise", "terminated" >>
    /\ UNCHANGED << inputs, pc, lock_acquired_event, release_lock_event,
                    resource, timeout, waited, release_elapsed,
                    cancel_requested, raised, message >>

\* lock_acquired_event.set()
HogSetAcquired ==
    /\ hpc = "acquired"
    /\ lock_acquired_event' = "set"
    /\ hpc' = "before_wait"
    /\ log' = Append(log, "set_acquired")
    /\ UNCHANGED << inputs, pc, release_lock_event, resource, timeout, waited,
                    release_elapsed, cancel_requested, raised, message,
                    hog_error >>

\* mutant: the wait blocks without looking at the flag first, and a flag
\* that was set before the wait began is missed
HogWait_MissesEarlierSet ==
    /\ hpc = "before_wait"
    /\ hpc' = IF release_lock_event = "set" THEN "missed" ELSE "blocked"
    /\ log' = Append(log, "block_on_release")
    /\ UNCHANGED << inputs, pc, lock_acquired_event, release_lock_event,
                    resource, timeout, waited, release_elapsed,
                    cancel_requested, raised, message, hog_error >>

\* mutant: the wrapper does not wait for the release event
HogWait_NoBlock ==
    /\ hpc = "before_wait"
    /\ hpc' = "observed"
    /\ log' = Append(log, "observe_release")
    /\ UNCHANGED << inputs, pc, lock_acquired_event, release_lock_event,
                    resource, timeout, waited, release_elapsed,
                    cancel_requested, raised, message, hog_error >>

\* release_lock_event.wait(): returns at once when the flag is set, blocks
\* otherwise (the test of the flag and the blocking are one step of Event)
HogWait ==
    /\ hpc = "before_wait"
    /\ IF release_lock_event = "set"
       THEN hpc' = "observed" /\ log' = Append(log, "observe_release")
       ELSE hpc' = "blocked" /\ log' = Append(log, "block_on_release")
    /\ UNCHANGED << inputs, pc, lock_acquired_event, release_lock_event,
                    resource, timeout, waited, release_elapsed,
                    cancel_requested, raised, message, hog_error >>

\* the blocked wait is woken by release_lock_event.set()
HogWake ==
    /\ hpc = "blocked"
    /\ release_lock_event = "set"
    /\ hpc' = "observed"
    /\ log' = Append(log, "observe_release")
    /\ UNCHANGED << inputs, pc, lock_acquired_event, release_lock_event,
                    resource, timeout, waited, release_elapsed,
                    cancel_requested, raised, message, hog_error >>

\* the with block ends: __exit__ calls release_lock()
HogCallRelease ==
    /\ hpc = "observed"
    /\ hpc' = "releasing"
    /\ release_elapsed' = 0
    /\ log' = Append(log, "release_call")
    /\ UNCHANGED << inputs, pc, lock_acquired_event, release_lock_event,
                    resource, timeout, waited, cancel_requested, raised,
                    message, hog_error >>

\* release_lock() returns with the resource given up; the wrapper has nothing
\* left to run, so the execution context ends
HogReleaseReturn ==
    /\ hpc = "releasing"
    /\ ~cancel_requested
    /\ capability.release = "returns"
    /\ release_elapsed >= capability.release_time
    /\ resource' = "free"
    /\ hpc' = "done"
    /\ log' = log \o << "release_return", "terminated" >>
    /\ UNCHANGED << inputs, pc, lock_acquired_event, release_lock_event,
                    timeout, waited, release_elapsed, cancel_requested, raised,
                    message, hog_error >>

\* release_lock() raises: the execution context ends with that error
HogReleaseRaise ==
    /\ hpc = "releasing"
    /\ ~cancel_requested
    /\ capability.release = "raises"
    /\ release_elapsed >= capability.release_time
    /\ hpc' = "failed"
    /\ hog_error' = "ReleaseError"
    /\ log' = log \o << "release_raise", "terminated" >>
    /\ UNCHANGED << inputs, pc, lock_acquired_event, release_lock_event,
                    resource, timeout, waited, release_elapsed,
                    cancel_requested, raised, message >>

\* the cancelled task gets CancelledError at the await inside release_lock():
\* release_lock() does not complete and the task ends cancelled
HogCancelled ==
    /\ hpc = "releasing"
    /\ cancel_requested
    /\ hpc' = "cancelled"
    /\ hog_error' = "CancelledError"
    /\ log' = log \o << "cancelled", "terminated" >>
    /\ UNCHANGED << inputs, pc, lock_acquired_event, release_lock_event,
                    resource, timeout, waited, release_elapsed,
                    cancel_requested, raised, message >>

\* ------------------------------------------------------------------- time
\* Half a time unit passes.  The bounded wait returns when its timeout has
\* passed, so time does not run on while an expired wait is pending.  A
\* thread or process may be kept off the processor for any time; a task that
\* is ready to run is run by the event loop before any timer, so for a task
\* time passes only while it is suspended inside release_lock().
Tick ==
    /\ IF OrchWaiting
       THEN waited < timeout.h
       ELSE hpc = "releasing" /\ release_elapsed < capability.release_time
    /\ Kind = "task" =>
          hpc = "releasing" /\ release_elapsed < capability.release_time
    /\ waited' = IF OrchWaiting THEN waited + 1 ELSE waited
    /\ release_elapsed' =
          IF hpc = "releasing" /\ release_elapsed < capability.release_time
          THEN release_elapsed + 1 ELSE release_elapsed
    /\ UNCHANGED << inputs, pc, hpc, lock_acquired_event, release_lock_event,
                    resource, timeout, cancel_requested, raised, message,
                    hog_error, log >>

Next ==
    \/ OrchCreate \/ OrchStart \/ OrchCreateTask \/ OrchWaitAcquired
    \/ OrchYield \/ OrchSetRelease \/ OrchJoin \/ OrchIsAlive
    \/ OrchAwaitDone \/ OrchAwaitTimeout \/ OrchTimeoutError
    \/ HogEnter \/ HogAcquireReturn \/ HogAcquireRaise \/ HogSetAcquired
    \/ HogWait \/ HogWake \/ HogCallRelease \/ HogReleaseReturn
    \/ HogReleaseRaise \/ HogCancelled
    \/ Tick

Spec == Init /\ [][Next]_vars

\* The steps of the orchestrator and of the execution context.
OrchStep ==
    \/ OrchCreate \/ OrchStart \/ OrchCreateTask \/ OrchWaitAcquired
    \/ OrchYield \/ OrchSetRelease \/ OrchJoin \/ OrchIsAlive
    \/ OrchAwaitDone \/ OrchAwaitTimeout \/ OrchTimeoutError

HoggerStep ==
    \/ HogEnter \/ HogAcquireReturn \/ HogAcquireRaise \/ HogSetAcquired
    \/ HogWait \/ HogWake \/ HogCallRelease \/ HogReleaseReturn
    \/ HogReleaseRaise \/ HogCancelled

\* A fair scheduler: a thread, process or task that can take a step is
\* eventually run, the caller goes on, and time passes.
FairSpec ==
    Spec /\ WF_vars(OrchStep) /\ WF_vars(HoggerStep) /\ WF_vars(Tick)

\* ================================================================ claims
CapabilityErrors == {"AcquireError", "ReleaseError"}

\* the bounded wait was carried out to its end, one way or the other
WaitPerformed ==
    Has("joined") \/ Has("wait_expired") \/ Has("exit_ok") \/ Has("error_surfaced")

\* C1: while the block of the caller runs, acquire() has returned in the
\* spawned context and release() has not been started: the resource is held
\* by the hogger, for thread, process and task alike.
C1_HeldWhileBlockRuns ==
    pc = "body" =>
        /\ Has("acquire_return")
        /\ ~Has("release_call")
        /\ hpc \in {"before_wait", "blocked"}
        /\ resource = "held"

C1_Witness == pc = "body" /\ hpc = "blocked" /\ Kind = "process"

\* C2 (as claimed): once the block of the caller has ended, by returning or
\* by raising, the orchestrator has set the release event by the time it is left.
C2_ReleaseSetWheneverBlockEnds ==
    (pc = "exited" /\ (Has("body_return") \/ Has("body_raise")))
        => release_lock_event = "set"

C5_NeverCancelsContext == ~cancel_requested /\ hpc # "cancelled"

\* C6 (as claimed): when the block of the caller ends with an error, the
\* release event is still set, the bounded wait and the liveness check are
\* still carried out, and the error of the block stays observable.
C6_BlockErrorStillChecksLiveness ==
    (pc = "exited" /\ Has("body_raise"))
        => /\ release_lock_event = "set"
           /\ WaitPerformed
           /\ raised \in {"BlockError", "HoggerStillAlive"}

\* C7: async_hog_lock entered without a running event loop raises
\* NoRunningEventLoop before any execution context exists: no task is
\* spawned, acquire() is never called, the resource is untouched.
C7_NoLoopNoContext ==
    (entry = "async_hog_lock" /\ ~loop_running /\ pc # "init")
        => /\ pc = "exited"
           /\ raised = "NoRunningEventLoop"
           /\ hpc = "none"
           /\ ~Has("spawn")
           /\ ~Has("acquire_call")
           /\ resource = "free"

C7_Witness == raised = "NoRunningEventLoop" /\ pc = "exited"

C9_WaitBound ==
    Has("set_release") =>
        LET bound == IF timeout_arg.ty = "NoneType" \/ timeout_arg.h = 0
                     THEN [ty |-> "float", h |-> 2]
                     ELSE timeout_arg
        IN  /\ timeout = bound
            /\ Has("wait_expired") => waited = bound.h

C9_Witness ==
    /\ Has("wait_expired")
    /\ timeout_arg = PyInt(0)
    /\ entry = "legacy_hog_lock"

\* C10: the message of HoggerStillAlive says "1 second" exactly when the
\* effective timeout equals 1.0 (the default and the integer 1 included) and
\* "<timeout> seconds" otherwise; it never says "1.0 seconds".
C10_SingularExactlyForOne ==
    raised = "HoggerStillAlive" =>
        /\ (timeout.h = 2) <=> (message = MessageWith("1 second"))
        /\ (timeout.h # 2) => message = MessageWith(PyFormat(timeout) \o " seconds")
        /\ message # MessageWith("1.0 seconds")

C10_Witness ==
    /\ raised = "HoggerStillAlive"
    /\ timeout_arg = PyInt(1)
    /\ message = MessageWith("1 second")

\* C11: the message of HoggerStillAlive names the kind of the execution
\* context that was spawned: thread for THREAD and for the thread-only entry
\* point, process for PROCESS, task for async_hog_lock.
C11_MessageNamesKind ==
    raised = "HoggerStillAlive" =>
        message =
            "The " \o Kind \o " that hogged the lock was still "
            \o (IF Kind = "task" THEN "executing" ELSE "alive") \o " after "
            \o AliveTimeDescription(timeout)
            \o ". If this doesn't indicate a bug, consider "
            \o "passing a longer timeout value to "
            \o (IF Kind = "task" THEN "async_hog_lock." ELSE "hog_lock.")

C11_Witness ==
    /\ raised = "HoggerStillAlive"
    /\ entry = "hog_lock"
    /\ hog_from = "PROCESS"

\* the steps of the handshake wrapper, in the order of the source
WrapperOrder ==
    << "acquire_call", "acquire_return", "set_acquired", "observe_release",
       "release_call" >>

IsWrapperStep(e) == \E i \in DOMAIN WrapperOrder : WrapperOrder[i] = e

WrapperSteps == SelectSeq(log, IsWrapperStep)

\* C12: in every execution of the handshake wrapper, acquire() returns, the
\* acquired event is set, the release event is observed and release() is
\* called, in this order, none left out or moved; the acquired event is never
\* set before acquire() returned, and release() never starts before the
\* release event was set.
C12_WrapperStepsInOrder ==
    /\ Len(WrapperSteps) <= Len(WrapperOrder)
    /\ WrapperSteps = SubSeq(WrapperOrder, 1, Len(WrapperSteps))
    /\ lock_acquired_event = "set" => Before("acquire_return", "set_acquired")
    /\ Has("release_call") =>
          /\ release_lock_event = "set"
          /\ Before("set_release", "release_call")

C12_Witness ==
    /\ WrapperSteps = WrapperOrder
    /\ Kind = "thread"

\* C13: if acquire() raises inside the spawned context, or never returns,
\* the acquired event is never set, the error is not delivered to the caller
\* and the unbounded entry wait of the orchestrator never returns: the block
\* is never entered and the orchestrator stays blocked, also after the
\* execution context has ended; for thread, process and task.
C13_AcquireFailureHangsEntry ==
    (Has("acquire_raise") \/ (hpc = "acquiring" /\ capability.acquire = "hangs"))
        => /\ pc = "wait_acquired"
           /\ lock_acquired_event = "clear"
           /\ raised = NoError
           /\ ~Has("body_enter")
           /\ ~ENABLED OrchWaitAcquired
           /\ Has("acquire_raise") => hpc = "failed" /\ hog_error = "AcquireError"

C13_Witness ==
    /\ Has("acquire_raise")
    /\ hpc = "failed"
    /\ pc = "wait_acquired"
    /\ Kind = "task"

\* C14 (as claimed): under a fair scheduler and with a release() that
\* returns, once the release event is set the wrapper observes it, completes
\* release() and terminates, so that the resource becomes free; also when
\* this takes longer than the timeout.
C14_ReleaseSignalLeadsToFree ==
    (release_lock_event = "set" /\ capability.release = "returns")
        ~> (hpc = "done" /\ resource = "free")

\* the same, for the contexts the orchestrator cannot cancel
C14_ThreadAndProcessOnly ==
    (Kind # "task" /\ release_lock_event = "set" /\ capability.release = "returns")
        ~> (hpc = "done" /\ resource = "free")

\* C15: no wake-up is lost on the release event.  When the orchestrator
\* sets the release event after the wrapper has set the acquired event and
\* before the wrapper has started to wait, the wait returns at once and the
\* wrapper goes on to release(); under a fair scheduler the wrapper never
\* stays blocked on a release event that is set.
C15_NoLostWakeup ==
    /\ [][(hpc = "before_wait" /\ release_lock_event = "set" /\ hpc' # hpc)
             => hpc' = "observed"]_vars
    /\ (hpc \in {"before_wait", "blocked"} /\ release_lock_event = "set")
          ~> Has("release_call")

C15_Witness ==
    /\ Has("release_call")
    /\ Before("set_release", "observe_release")
    /\ ~Has("block_on_release")
    /\ Kind = "thread"

\* C16: both events are monotone within a hog cycle: once set, an event is
\* never cleared by a later step of the wrapper or of the orchestrator; and
\* the invocation creates its own pair of events, once, both unset.
C16_SignalsMonotoneAndFresh ==
    [][/\ lock_acquired_event = "set" => lock_acquired_event' = "set"
       /\ release_lock_event = "set" => release_lock_event' = "set"
       /\ pc = "init" => lock_acquired_event = "nil" /\ release_lock_event = "nil"
       /\ lock_acquired_event # "nil" => lock_acquired_event' # "nil"
       /\ release_lock_event # "nil" => release_lock_event' # "nil"
       /\ (lock_acquired_event = "nil" /\ lock_acquired_event' # "nil")
             => /\ pc = "init"
                /\ lock_acquired_event' = "clear"
                /\ release_lock_event = "nil"
                /\ release_lock_event' = "clear"]_vars

C16_Witness ==
    /\ lock_acquired_event = "set"
    /\ release_lock_event = "set"
    /\ pc = "exited"
    /\ ~HoggerAlive

Count(e) == Cardinality({i \in DOMAIN log : log[i] = e})

\* the states of an invocation, in the order of the state machine
OrchRank(p) ==
    CASE p = "init" -> 0
      [] p = "start" -> 1
      [] p = "wait_acquired" -> 2
      [] p = "body" -> 3
      [] p = "set_release" -> 4
      [] p \in {"join", "await"} -> 5
      [] p \in {"is_alive", "cancelling"} -> 6
      [] OTHER -> 7

\* C17 (as claimed): an invocation whose block was entered goes on through
\* RELEASE-SIGNALED to exactly one of TERMINATED and TIMEOUT-VIOLATION, and
\* on exit it has performed exactly one bounded wait.
C17_ExitThroughReleaseAndOneWait ==
    (pc = "exited" /\ Has("body_enter"))
        => /\ Before("body_enter", "set_release") /\ Has("set_release")
           /\ Count("joined") + Count("wait_expired")
                + (IF Kind = "task"
                   THEN Count("exit_ok") + Count("error_surfaced") ELSE 0) = 1
           /\ Count("exit_ok") + Count("error_surfaced")
                + Count("liveness_violation") = 1

\* the part of C17 that the code keeps: the states are passed in order,
\* never back, with at most one bounded wait and at most one
\* HoggerStillAlive, and no second wait after it
C17_OrderKeptNoRetry ==
    [][/\ OrchRank(pc') >= OrchRank(pc)
       /\ Count("joined")' + Count("wait_expired")' <= 1
       /\ Count("liveness_violation")' <= 1
       /\ pc = "exited" => pc' = "exited"]_vars

\* C18: an invocation creates one execution context and one pair of events,
\* and each event has a single writer: the acquired event is set by the
\* wrapper only and no step of the orchestrator after the creation changes
\* it; the release event is set by the orchestrator only and no step of the
\* wrapper changes it.
C18_OneContextSingleWriters ==
    [][/\ Count("create")' <= 1 /\ Count("spawn")' <= 1
       /\ Has("body_enter")' => Count("create")' = 1 /\ Count("spawn")' = 1
       /\ (OrchStep /\ pc # "init") => lock_acquired_event' = lock_acquired_event
       /\ HoggerStep => release_lock_event' = release_lock_event
       /\ lock_acquired_event' # lock_acquired_event
             => (pc = "init" /\ OrchStep) \/ HogSetAcquired
       /\ release_lock_event' # release_lock_event
             => (pc = "init" /\ OrchStep) \/ OrchSetRelease
       /\ hpc = "none" /\ hpc' # "none" => pc = "init" /\ OrchStep]_vars

C18_Witness ==
    /\ lock_acquired_event = "set"
    /\ release_lock_event = "set"
    /\ Count("create") = 1
    /\ Count("spawn") = 1
    /\ Kind = "process"
    /\ hpc = "done"

\* what every run of the thread and process variants looks like after the
\* bounded wait: no error of the capability reaches the caller, and a context
\* that outlived the timeout is still running or has ended by itself, by
\* release() returning or raising
ThreadShape ==
    /\ ~Has("error_surfaced")
    /\ ~Has("cancelled")
    /\ Has("liveness_violation")
          => HoggerAlive \/ Has("release_return") \/ Has("release_raise")

\* holds: the thread and process variants (and the thread-only entry point)
\* all have this shape
C19_ThreadAndProcessShape == Kind # "task" => ThreadShape

\* C19 (as claimed): thread, process and task variants admit the same event
\* sequences for the same capability, the fate of the context and of the
\* resource after a timeout included: what the thread variant never does
\* after a timeout, the task variant never does either.
C19_SameAftermathInAllVariants ==
    Has("liveness_violation")
        => /\ ~Has("cancelled")
           /\ HoggerAlive \/ Has("release_return") \/ Has("release_raise")
           /\ capability.release = "returns" /\ ~HoggerAlive => resource = "free"

\* the check that follows the bounded wait: the is_alive() query of thread
\* and process, the expiry of asyncio.timeout for the task
TerminatedBeforeCheck ==
    IF Kind = "task"
    THEN ~Has("wait_expired") \/ Before("terminated", "wait_expired")
    ELSE Before("terminated", "is_alive")

C21_AcquireOnceReleaseAtMostOnce ==
    /\ Count("acquire_call") <= 1
    /\ Count("release_call") <= 1
    /\ hpc \notin {"none", "new", "ready"} => Count("acquire_call") = 1
    /\ Has("release_call")
          => /\ Before("acquire_return", "release_call")
             /\ Before("observe_release", "release_call")
             /\ ~Has("acquire_raise")
    /\ Has("acquire_raise") => ~Has("release_call") /\ hpc = "failed"
    /\ hpc \in {"releasing", "done"} => Count("release_call") = 1
    /\ hpc \in {"observed", "before_wait", "blocked", "acquired", "acquiring"}
          => Count("release_call") = 0

C21_Witness ==
    /\ hpc = "done"
    /\ Count("acquire_call") = 1
    /\ Count("release_call") = 1
    /\ Before("observe_release", "release_call")
    /\ Kind = "task"

=============================================================================
